---- MODULE Spec2Model ----
(***************************************************************************)
(* A model of the phishing-detection backend: the domain validator and     *)
(* the feature extractor of extractor.py and the /predict handler of       *)
(* app.py.  A Python str is a sequence of one-character strings; a dict is *)
(* a function from its keys.                                               *)
(***************************************************************************)
EXTENDS Integers, Sequences, FiniteSets, TLC

(* ---------------------------- characters ------------------------------- *)

LowerSeq ==
  << "a", "b", "c", "d", "e", "f", "g", "h", "i", "j", "k", "l", "m",
     "n", "o", "p", "q", "r", "s", "t", "u", "v", "w", "x", "y", "z" >>

UpperSeq ==
  << "A", "B", "C", "D", "E", "F", "G", "H", "I", "J", "K", "L", "M",
     "N", "O", "P", "Q", "R", "S", "T", "U", "V", "W", "X", "Y", "Z" >>

Lower == { LowerSeq[i] : i \in 1..26 }

Upper == { UpperSeq[i] : i \in 1..26 }

Letters == Lower \cup Upper

Digits == { "0", "1", "2", "3", "4", "5", "6", "7", "8", "9" }

(* ------------------------- Python str methods -------------------------- *)

\* str.lower() on one character
lower_char(c) ==
  IF c \in Upper THEN LowerSeq[CHOOSE i \in 1..26 : UpperSeq[i] = c] ELSE c

\* str.lower()
lower(s) == [i \in 1..Len(s) |-> lower_char(s[i])]

\* s[i-1 : i-1+len(sub)] == sub, for a 1-based position i
HasAt(s, sub, i) ==
  /\ i >= 1
  /\ i + Len(sub) - 1 <= Len(s)
  /\ \A k \in 1..Len(sub) : s[i + k - 1] = sub[k]

\* the 1-based positions at which sub occurs in s
Occurrences(s, sub) == { i \in 1..(Len(s) - Len(sub) + 1) : HasAt(s, sub, i) }

\* sub in s
Contains(s, sub) == Occurrences(s, sub) # {}

SetMin(S) == CHOOSE x \in S : \A y \in S : x <= y

SetMax(S) == CHOOSE x \in S : \A y \in S : x >= y

\* s.find(sub): the 0-based index of the first occurrence, -1 when there is none
find(s, sub) == IF Contains(s, sub) THEN SetMin(Occurrences(s, sub)) - 1 ELSE -1

\* s.rfind(sub): the 0-based index of the last occurrence, -1 when there is none
rfind(s, sub) == IF Contains(s, sub) THEN SetMax(Occurrences(s, sub)) - 1 ELSE -1

\* the characters of s
Chars(s) == { s[i] : i \in 1..Len(s) }

\* len(s.split(sep)) for a one-character separator
SplitCount(s, sep) == Cardinality({ i \in 1..Len(s) : s[i] = sep }) + 1

(* ------------------------- urllib.parse.urlparse ----------------------- *)

scheme_chars == Letters \cup Digits \cup { "+", "-", "." }

\* 1-based position of the first of "/", "?", "#" at or after position 3,
\* Len(s) + 1 when there is none (urllib's _splitnetloc)
NetlocEnd(s) ==
  LET D == { k \in 3..Len(s) : s[k] \in { "/", "?", "#" } }
  IN  IF D = {} THEN Len(s) + 1 ELSE SetMin(D)

\* s up to, not including, the first occurrence of the character c
Before(s, c) ==
  IF c \in Chars(s) THEN SubSeq(s, 1, find(s, <<c>>)) ELSE s

\* the components urlsplit cuts u into: the scheme (lower-cased; text up to
\* the first ":" that starts with a letter and holds scheme characters
\* only), the authority (after "//", up to the first "/", "?" or "#") and
\* the path.  Inputs carry no ";", no line terminator and no leading blank.
SplitUrl(u) ==
  LET i         == find(u, <<":">>)
      hasScheme == /\ i > 0
                   /\ u[1] \in Letters
                   /\ \A k \in 1..i : u[k] \in scheme_chars
      scheme    == IF hasScheme THEN lower(SubSeq(u, 1, i)) ELSE <<>>
      rest      == IF hasScheme THEN SubSeq(u, i + 2, Len(u)) ELSE u
      hasNetloc == HasAt(rest, << "/", "/" >>, 1)
      delim     == NetlocEnd(rest)
      netloc    == IF hasNetloc THEN SubSeq(rest, 3, delim - 1) ELSE <<>>
      tail      == IF hasNetloc THEN SubSeq(rest, delim, Len(rest)) ELSE rest
  IN  [scheme |-> scheme, netloc |-> netloc,
       path |-> Before(Before(tail, "#"), "?")]

\* urlsplit raises ValueError("Invalid IPv6 URL"): one of "[" and "]" is in
\* the authority and the other is not
InvalidIPv6(netloc) == ("[" \in Chars(netloc)) # ("]" \in Chars(netloc))

\* urlparse(u): the components, or the exception raised
urlparse(u) ==
  LET p == SplitUrl(u)
  IN  IF InvalidIPv6(p.netloc)
      THEN [raised |-> "ValueError", msg |-> "Invalid IPv6 URL",
            scheme |-> <<>>, netloc |-> <<>>, path |-> <<>>]
      ELSE [raised |-> "none", msg |-> "",
            scheme |-> p.scheme, netloc |-> p.netloc, path |-> p.path]

(* --------------------------- is_valid_domain --------------------------- *)

MaxDomainLen == 253

MaxLabelLen == 63

MinTldLen == 2

\* [A-Za-z0-9-]
LabelChars == Letters \cup Digits \cup { "-" }

\* [A-Za-z0-9]: a final label that admits digits
TldChars_alnum == Letters \cup Digits

\* [A-Za-z]
TldChars == Letters

\* (\.[A-Za-z]{2,})+$ matched against d from the 1-based position k
RECURSIVE MatchTldGroups(_, _)
MatchTldGroups(d, k) ==
  /\ k <= Len(d)
  /\ d[k] = "."
  /\ \E j \in (k + MinTldLen)..Len(d) :
        /\ \A m \in (k + 1)..j : d[m] \in TldChars
        /\ (j = Len(d) \/ MatchTldGroups(d, j + 1))

\* re.match(r"^(?=.{1,253}$)(?!-)[A-Za-z0-9-]{1,63}(?<!-)(\.[A-Za-z]{2,})+$", domain)
is_valid_domain(domain) ==
  /\ Len(domain) >= 1
  /\ Len(domain) <= MaxDomainLen
  /\ domain[1] # "-"
  /\ \E i \in 1..MaxLabelLen :
        /\ i <= Len(domain)
        /\ \A m \in 1..i : domain[m] \in LabelChars
        /\ domain[i] # "-"
        /\ MatchTldGroups(domain, i + 1)

(* --------------------------- socket.inet_aton -------------------------- *)

HexSeq ==
  << "0", "1", "2", "3", "4", "5", "6", "7", "8", "9", "a", "b", "c", "d", "e", "f" >>

\* the value of one digit; 16 for a character that is no digit
DigitVal(c) ==
  LET l == lower_char(c)
  IN  IF \E i \in 1..16 : HexSeq[i] = l
      THEN (CHOOSE i \in 1..16 : HexSeq[i] = l) - 1
      ELSE 16

RECURSIVE NumVal(_, _)
NumVal(s, base) ==
  IF s = <<>> THEN 0
  ELSE NumVal(SubSeq(s, 1, Len(s) - 1), base) * base + DigitVal(s[Len(s)])

\* the pieces of s between the occurrences of the character sep (s.split(sep))
RECURSIVE Split(_, _)
Split(s, sep) ==
  IF sep \notin Chars(s) THEN << s >>
  ELSE LET i == find(s, <<sep>>)
       IN  << SubSeq(s, 1, i) >> \o Split(SubSeq(s, i + 2, Len(s)), sep)

\* strtoul(part, &end, 0) consumes the whole part: the base and the digits,
\* base 0 when it does not (parts of more than 7 digits are not modelled)
NumBase(part) ==
  IF part = <<>> \/ part[1] \notin Digits \/ Len(part) > 7 THEN 0
  ELSE IF Len(part) >= 3 /\ part[1] = "0" /\ lower_char(part[2]) = "x"
       THEN IF \A k \in 3..Len(part) : DigitVal(part[k]) < 16 THEN 16 ELSE 0
  ELSE IF part[1] = "0"
       THEN IF \A k \in 1..Len(part) : DigitVal(part[k]) < 8 THEN 8 ELSE 0
  ELSE IF \A k \in 1..Len(part) : DigitVal(part[k]) < 10 THEN 10 ELSE 0

NumDigits(part) == IF NumBase(part) = 16 THEN SubSeq(part, 3, Len(part)) ELSE part

\* the largest last part of an address of n parts (parts of 7 digits are
\* below 16^7, so the bound of a one-part address is never exceeded)
MaxLast(n) == IF n = 4 THEN 255 ELSE IF n = 3 THEN 65535 ELSE IF n = 2 THEN 16777215 ELSE 268435456

\* socket.inet_aton(s) returns instead of raising: one to four numbers
\* separated by dots, optionally followed by white space and anything
inet_aton(s) ==
  LET addr  == Before(s, " ")
      parts == Split(addr, ".")
      n     == Len(parts)
  IN  /\ n <= 4
      /\ \A k \in 1..n : NumBase(parts[k]) # 0
      /\ \A k \in 1..(n - 1) : NumVal(NumDigits(parts[k]), NumBase(parts[k])) <= 255
      /\ NumVal(NumDigits(parts[n]), NumBase(parts[n])) <= MaxLast(n)

(* ------------------------ extract_features_from_url -------------------- *)

\* features = {}
EmptyDict == [k \in {} |-> 0]

\* d[k] = v
Put(d, k, v) == [x \in DOMAIN d \cup { k } |-> IF x = k THEN v ELSE d[x]]

\* the alternatives of the pattern shortening_services; every "\." of the
\* pattern is a literal dot
shortening_services ==
  << << "b", "i", "t", ".", "l", "y" >>,
     << "g", "o", "o", ".", "g", "l" >>,
     << "s", "h", "o", "r", "t", "e", ".", "s", "t" >>,
     << "g", "o", "2", "l", ".", "i", "n", "k" >>,
     << "x", ".", "c", "o" >>,
     << "o", "w", ".", "l", "y" >>,
     << "t", ".", "c", "o" >>,
     << "t", "i", "n", "y", "u", "r", "l" >>,
     << "t", "r", ".", "i", "m" >>,
     << "i", "s", ".", "g", "d" >> >>

\* re.search(pattern, s) is not None, for a pattern that is an alternation
\* of literal strings
re_search(alternatives, s) ==
  \E p \in 1..(Len(s) + 1) :
     \E a \in 1..Len(alternatives) : HasAt(s, alternatives[a], p)

\* urlparse(url if "://" in url else "http://" + url)
WithScheme(url) ==
  IF Contains(url, << ":", "/", "/" >>) THEN url ELSE << "h", "t", "t", "p", ":", "/", "/" >> \o url

\* parsed.hostname in place of parsed.netloc: the authority without its
\* user-info and its port
Domain_hostname(parsed) ==
  LET n    == parsed.netloc
      host == IF Contains(n, << "@" >>) THEN SubSeq(n, rfind(n, << "@" >>) + 2, Len(n)) ELSE n
  IN  Before(host, ":")

\* domain = parsed.netloc
Domain(parsed) == parsed.netloc

having_IP_Address(domain) == IF inet_aton(domain) THEN -1 ELSE 1

\* the length of the string handed to urlparse in place of len(url)
URL_Length_parsed(url) ==
  LET length == Len(WithScheme(url))
  IN  IF length < 54 THEN 1 ELSE IF length <= 75 THEN 0 ELSE -1

URL_Length(url) ==
  LET length == Len(url)
  IN  IF length < 54 THEN 1 ELSE IF length <= 75 THEN 0 ELSE -1

\* the pattern searched with re.IGNORECASE
Shortining_Service_nocase(url) ==
  IF re_search(shortening_services, lower(url)) THEN -1 ELSE 1

Shortining_Service(url) == IF re_search(shortening_services, url) THEN -1 ELSE 1

having_At_Symbol(url) == IF Contains(url, << "@" >>) THEN -1 ELSE 1

double_slash_redirecting(url) == IF rfind(url, << "/", "/" >>) > 6 THEN -1 ELSE 1

Prefix_Suffix(domain) == IF Contains(domain, << "-" >>) THEN -1 ELSE 1

\* the branches folded into arithmetic on the label count
having_Sub_Domain_arith(domain) ==
  LET dots == SplitCount(domain, ".")
  IN  IF dots <= 2 THEN 1 ELSE 3 - dots

\* the thresholds applied to the number of dots in place of the number of labels
having_Sub_Domain_dots(domain) ==
  LET dots == SplitCount(domain, ".") - 1
  IN  IF dots <= 2 THEN 1 ELSE IF dots = 3 THEN 0 ELSE -1

having_Sub_Domain(domain) ==
  LET dots == SplitCount(domain, ".")
  IN  IF dots <= 2 THEN 1 ELSE IF dots = 3 THEN 0 ELSE -1

SSLfinal_State(parsed) == IF lower(parsed.scheme) = << "h", "t", "t", "p", "s" >> THEN 1 ELSE -1

port(domain) == IF Contains(domain, << ":" >>) THEN -1 ELSE 1

HTTPS_token(parsed) == IF Contains(lower(parsed.path), << "h", "t", "t", "p", "s" >>) THEN -1 ELSE 1

Submitting_to_email(url) == IF Contains(url, << "m", "a", "i", "l", "t", "o", ":" >>) THEN -1 ELSE 1

\* the assignments features[key] = value of the function body, in order
Assignments(url, parsed, domain) ==
  << << "having_IP_Address", having_IP_Address(domain) >>,
     << "URL_Length", URL_Length(url) >>,
     << "Shortining_Service", Shortining_Service(url) >>,
     << "having_At_Symbol", having_At_Symbol(url) >>,
     << "double_slash_redirecting", double_slash_redirecting(url) >>,
     << "Prefix_Suffix", Prefix_Suffix(domain) >>,
     << "having_Sub_Domain", having_Sub_Domain(domain) >>,
     << "SSLfinal_State", SSLfinal_State(parsed) >>,
     << "Domain_registeration_length", -1 >>,
     << "Favicon", 1 >>,
     << "port", port(domain) >>,
     << "HTTPS_token", HTTPS_token(parsed) >>,
     << "Request_URL", -1 >>,
     << "URL_of_Anchor", -1 >>,
     << "Links_in_tags", -1 >>,
     << "SFH", -1 >>,
     << "Submitting_to_email", Submitting_to_email(url) >>,
     << "Abnormal_URL", -1 >>,
     << "Redirect", -1 >>,
     << "on_mouseover", -1 >>,
     << "RightClick", 1 >>,
     << "popUpWidnow", -1 >>,
     << "Iframe", -1 >>,
     << "age_of_domain", -1 >>,
     << "DNSRecord", -1 >>,
     << "web_traffic", -1 >>,
     << "Page_Rank", -1 >>,
     << "Google_Index", 1 >>,
     << "Links_pointing_to_page", -1 >>,
     << "Statistical_report", -1 >>
  >>

\* the dict after the first n assignments of the sequence a
RECURSIVE Assign(_, _)
Assign(a, n) ==
  IF n = 0 THEN EmptyDict ELSE Put(Assign(a, n - 1), a[n][1], a[n][2])

\* what a call ends with: the exception raised ("none" on return) and its
\* message, the locals domain and features as the call leaves them, and
\* whether parsing returned and what the validator answered
Outcome(raised, msg, parsed, domain, valid, features) ==
  [raised |-> raised, msg |-> msg, parsed |-> parsed, domain |-> domain,
   valid |-> valid, features |-> features]

\* extract_features_from_url without the early rejection of line 20
extract_features_from_url_unchecked(url) ==
  IF url.type # "str"
  THEN Outcome("TypeError", "not iterable", FALSE, << >>, FALSE, EmptyDict)
  ELSE
    LET parsed == urlparse(WithScheme(url.val))
        domain == Domain(parsed)
    IN  IF parsed.raised # "none"
        THEN Outcome(parsed.raised, parsed.msg, FALSE, << >>, FALSE, EmptyDict)
        ELSE LET a == Assignments(url.val, parsed, domain)
             IN  Outcome("none", "", TRUE, domain, is_valid_domain(domain), Assign(a, Len(a)))

\* extract_features_from_url(url) for a JSON value url: a str, or a value
\* of another type, on which the test "://" in url raises TypeError
extract_features_from_url(url) ==
  IF url.type # "str"
  THEN Outcome("TypeError", "not iterable", FALSE, << >>, FALSE, EmptyDict)
  ELSE
    LET parsed == urlparse(WithScheme(url.val))
        domain == Domain(parsed)
    IN  IF parsed.raised # "none"
        THEN Outcome(parsed.raised, parsed.msg, FALSE, << >>, FALSE, EmptyDict)
        ELSE IF ~ is_valid_domain(domain)
        THEN Outcome("ValueError", "Invalid domain format", TRUE, domain, FALSE, EmptyDict)
        ELSE LET a == Assignments(url.val, parsed, domain)
             IN  Outcome("none", "", TRUE, domain, TRUE, Assign(a, Len(a)))

(* ------------------------------- inputs -------------------------------- *)

\* the string of n characters c
Rep(c, n) == [i \in 1..n |-> c]

\* the longest string enumerated over Alphabet
MaxLen == 3

Alphabet == { "a", "1", "-", ".", "/", ":" }

\* every string over Alphabet of at most MaxLen characters
ShortStrings == UNION { [1..n -> Alphabet] : n \in 0..MaxLen }

Schemes ==
  { << >>,
    << "h", "t", "t", "p", ":", "/", "/" >>,
    << "h", "t", "t", "p", "s", ":", "/", "/" >>,
    << "H", "T", "T", "P", "S", ":", "/", "/" >>,
    << "f", "t", "p", ":", "/", "/" >> }

Hosts ==
  { << "e", "x", "a", "m", "p", "l", "e", ".", "c", "o", "m" >>,
    << "s", "u", "b", ".", "e", "x", "a", "m", "p", "l", "e", ".", "c", "o", "m" >>,
    << "x", ".", "c", "o" >>,
    << "1", "9", "2", ".", "1", "6", "8", ".", "0", ".", "1" >>,
    << "1", "0", ".", "1", "0" >>,
    << "s", "u", "b", ".", "e", "x", "a", "m", "p", "l", "e", "1", ".", "c", "o", "m" >>,
    << "m", "y", ".", "w", "e", "b", "-", "s", "i", "t", "e", ".", "c", "o", "m" >>,
    << "w", "e", "b", "-", "s", "i", "t", "e", ".", "c", "o", "m" >>,
    << "1", "6", "3", ".", "c", "o", "m" >>,
    << "a", ".", "b", ".", "c", ".", "d", ".", "c", "o", "m" >>,
    << "a", ".", "b", "b", ".", "c", "c", ".", "d", "d", ".", "e", "e" >>,
    << "a", ".", "b", "b", ".", "c", "c", ".", "d", "d" >>,
    << "e", "x", "a", "m", "p", "l", "e", ".", "c", "o", "m", ":", "8", "0", "8", "0" >>,
    << "u", "s", "e", "r", "@", "e", "x", "a", "m", "p", "l", "e", ".", "c", "o", "m" >>,
    << "[", "e", "x", "a", "m", "p", "l", "e", ".", "c", "o", "m" >>,
    << "e", "x", "a", "m", "p", "l", "e", ".", "c", "o", "m", "]" >>,
    << "-", "b", "a", "d", "-", ".", "c", "o", "m" >>,
    << "a", ".", ".", "b" >>,
    << "n", "o", "t", " ", "a", " ", "d", "o", "m", "a", "i", "n" >>,
    << "l", "o", "c", "a", "l", "h", "o", "s", "t" >>,
    << "c", "o", "m" >>,
    << "B", "I", "T", ".", "L", "Y" >>,
    << "E", "x", "a", "m", "p", "l", "e", ".", "C", "O", "M" >>,
    << "e", "x", "a", "m", "p", "l", "e", ".", "c", "0", "m" >>,
    << "e", "x", "a", "m", "p", "l", "e", ".", "c", "o", "m", "." >>,
    << "t", "x", "c", "o", ".", "c", "o", "m" >> }

\* authorities at the limits of the pattern: a first label of 63 and of 64
\* characters, a later label of 64, a total of 253 and of 254
LongHosts ==
  { Rep("a", MaxLabelLen) \o << ".", "a", "a" >>,
    Rep("a", MaxLabelLen + 1) \o << ".", "a", "a" >>,
    << "a", "." >> \o Rep("a", MaxLabelLen + 1),
    << "a", "." >> \o Rep("a", MaxLabelLen) \o << ".", "a", "a" >>,
    << "a", "." >> \o Rep("a", MaxDomainLen - 2),
    << "a", "." >> \o Rep("a", MaxDomainLen - 1) }

Tails ==
  { << >>,
    << "/", "a", "b", "c" >>,
    << "/", "a", "b", "c", "\"" >>,
    << "/", "@" >>,
    << "/", "/", "a", "b", "c" >>,
    << "/", "a", "/", "/", "b" >>,
    << "/", "h", "t", "t", "p", "s" >>,
    << "/", "H", "T", "T", "P", "S", "/", "a" >>,
    << "?", "q", "=", "h", "t", "t", "p", "s" >>,
    << "#", "h", "t", "t", "p", "s" >>,
    << "/", "m", "a", "i", "l", "t", "o", ":", "a" >>,
    << "/", "t", "i", "n", "y", "u", "r", "l" >>,
    << "/", "?", "u", "=", "h", "t", "t", "p", ":", "/", "/", "a", ".", "a", "a" >>,
    << "@", "a", ".", "a", "a" >>,
    << ":", "8", "0", "/", "a" >> }

\* s followed by a path that brings the whole string to n characters
PadTo(s, n) == s \o << "/" >> \o Rep("a", n - Len(s) - 1)

\* the string lengths around the two thresholds of URL_Length
Lengths == { 46, 47, 53, 54, 55, 68, 69, 75, 76, 77 }

Padded ==
  { PadTo(sc \o h, n) :
      sc \in Schemes,
      h \in { << "e", "x", "a", "m", "p", "l", "e", ".", "c", "o", "m" >>, << "s", "u", "b", ".", "e", "x", "a", "m", "p", "l", "e", ".", "c", "o", "m" >>, << "x", ".", "c", "o" >>, << "a", ".", ".", "b" >> },
      n \in Lengths }

Inputs ==
  ShortStrings
    \cup { sc \o h \o t : sc \in Schemes, h \in Hosts, t \in Tails }
    \cup LongHosts
    \cup Padded

\* the value of the "url" member of the request body: a string, null (or no
\* such member), or a number
Requests ==
  { [type |-> "str", val |-> s] : s \in Inputs }
    \cup { [type |-> "null", val |-> << >>],
           [type |-> "int", val |-> << "0" >>],
           [type |-> "int", val |-> << "5" >>] }

\* the truth value of a JSON value in Python
Truthy(v) ==
  IF v.type = "str" THEN v.val # << >>
  ELSE IF v.type = "int" THEN v.val # << "0" >>
  ELSE FALSE

\* the columns of the training data without "Result": the order in which the
\* extractor assigns them, another order, and a file with one more column
ColumnLists ==
  LET order == [i \in 1..30 |-> Assignments(<< >>, urlparse(<< >>), << >>)[i][1]]
  IN  { order,
        [i \in 1..30 |-> order[31 - i]],
        << "index" >> \o order }

\* the labels the classifier answers with
Labels == { 0, 1 }

\* what a call of model.predict does: it returns a label or it raises
ModelOutcomes ==
  { [raises |-> FALSE, label |-> l] : l \in Labels } \cup { [raises |-> TRUE, label |-> 0] }

(* -------------------------------- app.py ------------------------------- *)

VARIABLES
  X_COLUMNS,      \* the column list read at startup
  url,            \* data.get("url") of the request being answered
  extraction,     \* how the call of extract_features_from_url ended
  input_df,       \* the row handed to the classifier: << column, value >> pairs
  predict_calls,  \* the calls of model.predict made for this request
  prediction,     \* << label >> once model.predict has returned
  response        \* the status and the JSON body returned

vars == << X_COLUMNS, url, extraction, input_df, predict_calls, prediction, response >>

NoRequest == [type |-> "none", val |-> << >>]

NotCalled == Outcome("notcalled", "", FALSE, << >>, FALSE, EmptyDict)

NoResponse == [status |-> 0, body |-> EmptyDict]

Init ==
  /\ X_COLUMNS \in ColumnLists
  /\ url = NoRequest
  /\ extraction = NotCalled
  /\ input_df = << >>
  /\ predict_calls = 0
  /\ prediction = << >>
  /\ response = NoResponse

\* the label convention the other way round
isPhishing_inverted(label) == label = 1

\* "isPhishing": int(prediction) == 0
isPhishing(label) == label = 0

\* pd.DataFrame([features])[X_COLUMNS] raises KeyError
MissingColumn(features) == \E i \in 1..Len(X_COLUMNS) : X_COLUMNS[i] \notin DOMAIN features

\* pd.DataFrame([features])[X_COLUMNS]
Reindex(features) == [i \in 1..Len(X_COLUMNS) |-> << X_COLUMNS[i], features[X_COLUMNS[i]] >>]

\* model.predict(input_df) and the response built from what it does: it
\* returns a label or it raises
Classify(u, out) ==
  IF out.raises
  THEN /\ response' = [status |-> 500,
                       body |-> [error |-> << "Prediction failed: ", "model" >>]]
       /\ prediction' = << >>
  ELSE /\ response' = [status |-> 200,
                       body |-> [url |-> u.val, prediction |-> out.label,
                                 isPhishing |-> isPhishing(out.label)]]
       /\ prediction' = << out.label >>

\* the handler from the return or the exception of the call on line 30: e is
\* how the call ended
AfterExtraction(u, e) ==
  /\ extraction' = e
  /\ IF e.raised = "ValueError"
     THEN /\ response' = [status |-> 400, body |-> [error |-> << e.msg >>]]
          /\ input_df' = << >>
          /\ predict_calls' = 0
          /\ prediction' = << >>
     ELSE IF e.raised # "none"
     THEN /\ response' = [status |-> 500,
                          body |-> [error |-> << "Feature extraction failed: ", e.msg >>]]
          /\ input_df' = << >>
          /\ predict_calls' = 0
          /\ prediction' = << >>
     ELSE IF MissingColumn(e.features)
     THEN /\ response' = [status |-> 500,
                          body |-> [error |-> << "Prediction failed: ", "KeyError" >>]]
          /\ input_df' = << >>
          /\ predict_calls' = 0
          /\ prediction' = << >>
     ELSE /\ input_df' = Reindex(e.features)
          /\ predict_calls' = 1
          /\ \E out \in ModelOutcomes : Classify(u, out)

\* POST /predict with the body member url = u
predict(u) ==
  /\ response.status = 0
  /\ url' = u
  /\ UNCHANGED X_COLUMNS
  /\ IF ~ Truthy(u)
     THEN /\ response' = [status |-> 400, body |-> [error |-> << "No URL provided" >>]]
          /\ extraction' = NotCalled
          /\ input_df' = << >>
          /\ predict_calls' = 0
          /\ prediction' = << >>
     ELSE AfterExtraction(u, extract_features_from_url(u))

\* GET /
home ==
  /\ response.status = 0
  /\ response' = [status |-> 200, body |-> [text |-> << "Phishing Detection API is running!" >>]]
  /\ UNCHANGED << X_COLUMNS, url, extraction, input_df, predict_calls, prediction >>

\* the response is sent and the locals of the request are dropped; the
\* server answers the next request
Teardown ==
  /\ response.status # 0
  /\ url' = NoRequest
  /\ extraction' = NotCalled
  /\ input_df' = << >>
  /\ predict_calls' = 0
  /\ prediction' = << >>
  /\ response' = NoResponse
  /\ UNCHANGED X_COLUMNS

Next ==
  \/ \E u \in Requests : predict(u)
  \/ home
  \/ Teardown

Spec == Init /\ [][Next]_vars

(* ----------------------------- properties ------------------------------ *)

\* the request carried a string and the extractor was called on it
CalledOnStr == url.type = "str" /\ extraction.raised # "notcalled"

\* the call of the extractor returned a vector
Returned == extraction.raised = "none"

\* the call of the extractor ended with the error of line 21
InvalidDomainError ==
  extraction.raised = "ValueError" /\ extraction.msg = "Invalid domain format"

\* the authority of the submitted URL, prefixed with "http://" when it has no "://"
Authority == SplitUrl(WithScheme(url.val)).netloc

\* urlparse returns on the submitted URL
Parses == urlparse(WithScheme(url.val)).raised = "none"

\* the 30 feature names of the specification
FeatureKeys ==
  { "having_IP_Address",
    "URL_Length",
    "Shortining_Service",
    "having_At_Symbol",
    "double_slash_redirecting",
    "Prefix_Suffix",
    "having_Sub_Domain",
    "SSLfinal_State",
    "Domain_registeration_length",
    "Favicon",
    "port",
    "HTTPS_token",
    "Request_URL",
    "URL_of_Anchor",
    "Links_in_tags",
    "SFH",
    "Abnormal_URL",
    "Redirect",
    "on_mouseover",
    "popUpWidnow",
    "Iframe",
    "age_of_domain",
    "DNSRecord",
    "web_traffic",
    "Page_Rank",
    "Links_pointing_to_page",
    "Statistical_report",
    "Submitting_to_email",
    "RightClick",
    "Google_Index" }

TernaryKeys == { "having_Sub_Domain", "URL_Length" }

\* C1: whenever the authority of the submitted URL passes is_valid_domain,
\* the extractor returns a mapping whose keys are exactly the 30 feature
\* names, with having_Sub_Domain and URL_Length in {-1, 0, 1} and every
\* other key in {-1, 1}.
C1_VectorShape ==
  (CalledOnStr /\ Parses /\ is_valid_domain(Authority)) =>
     /\ Returned
     /\ DOMAIN extraction.features = FeatureKeys
     /\ Cardinality(DOMAIN extraction.features) = 30
     /\ \A k \in DOMAIN extraction.features :
           IF k \in TernaryKeys
           THEN extraction.features[k] \in { -1, 0, 1 }
           ELSE extraction.features[k] \in { -1, 1 }

\* a vector was returned for an authority of more than four labels
C1_Witness ==
  /\ CalledOnStr
  /\ Returned
  /\ SplitCount(Authority, ".") > 4
  /\ Cardinality(DOMAIN extraction.features) = 30

\* the three invalid inputs the specification names
InvalidExamples ==
  { << "n", "o", "t", " ", "a", " ", "d", "o", "m", "a", "i", "n" >>,
    << "-", "b", "a", "d", "-", ".", "c", "o", "m" >>,
    << "a", ".", ".", "b" >> }

\* every call ends with the complete vector or with an error and no vector
AllOrNothing ==
  extraction.raised # "notcalled" =>
     \/ Returned /\ DOMAIN extraction.features = FeatureKeys
     \/ ~ Returned /\ DOMAIN extraction.features = {}

DocumentedDomain(d) ==
  LET labels == Split(d, ".")
  IN  /\ Len(d) >= 1
      /\ Len(d) <= 253
      /\ \A i \in 1..Len(labels) :
            /\ Len(labels[i]) >= 1
            /\ Len(labels[i]) <= 63
            /\ Chars(labels[i]) \subseteq Letters \cup Digits \cup { "-" }
            /\ labels[i][1] # "-"
            /\ labels[i][Len(labels[i])] # "-"
      /\ Len(labels[Len(labels)]) >= 2
      /\ Chars(labels[Len(labels)]) \subseteq Letters

\* C3: on every authority made of letters, digits, "-" and ".", the answer
\* of is_valid_domain equals the documented pattern; sub.example1.com and
\* my.web-site.com are accepted.
C3_MatchesDocumentedPattern ==
  /\ (extraction.parsed /\ Chars(extraction.domain) \subseteq Letters \cup Digits \cup { "-", "." }) =>
        (extraction.valid <=> DocumentedDomain(extraction.domain))
  /\ (extraction.parsed /\ extraction.domain \in { << "s", "u", "b", ".", "e", "x", "a", "m", "p", "l", "e", "1", ".", "c", "o", "m" >>,
                                                   << "m", "y", ".", "w", "e", "b", "-", "s", "i", "t", "e", ".", "c", "o", "m" >> }) =>
        extraction.valid

\* C4: an extraction that fails is answered with status 400 only when the
\* failure is the invalid-domain error raised after the validator said no;
\* every other failure, the ValueError of urlparse included, is answered
\* with status 500 and "Feature extraction failed".
C4_Only400IsInvalidDomain ==
  (extraction.raised \notin { "notcalled", "none" }) =>
     IF extraction.parsed /\ ~ extraction.valid /\ InvalidDomainError
     THEN response.status = 400
     ELSE /\ response.status = 500
          /\ response.body.error[1] = "Feature extraction failed: "

\* the response of the predict handler is a success response
Success == url.type # "none" /\ response.status = 200

\* C5: model.predict is called only after the extractor returned, on the
\* vector reindexed to X_COLUMNS; a success response carries the label as
\* prediction and isPhishing = (label = 0); an error response carries
\* neither field.
C5_PredictionConvention ==
  /\ predict_calls > 0 =>
        /\ Returned
        /\ Truthy(url)
        /\ Len(input_df) = Len(X_COLUMNS)
        /\ \A i \in 1..Len(X_COLUMNS) :
              input_df[i] = << X_COLUMNS[i], extraction.features[X_COLUMNS[i]] >>
  /\ Success =>
        /\ predict_calls = 1
        /\ prediction = << response.body.prediction >>
        /\ response.body.isPhishing = (response.body.prediction = 0)
        /\ (response.body.prediction = 1 => response.body.isPhishing = FALSE)
  /\ "error" \in DOMAIN response.body =>
        /\ "prediction" \notin DOMAIN response.body
        /\ "isPhishing" \notin DOMAIN response.body

\* a success response with label 0
C5_Witness ==
  /\ Success
  /\ response.body.prediction = 0
  /\ response.body.isPhishing = TRUE
  /\ predict_calls = 1

\* C6: URL_Length follows the length of the string as submitted: 1 below
\* 54, 0 from 54 to 75, -1 above 75; 53 gives 1, 54 gives 0, 75 gives 0 and
\* 76 gives -1.
C6_UrlLengthOfRawInput ==
  (CalledOnStr /\ Returned) =>
     LET n == Len(url.val)
         v == extraction.features["URL_Length"]
     IN  /\ n < 54 => v = 1
         /\ (n >= 54 /\ n <= 75) => v = 0
         /\ n > 75 => v = -1
         /\ n = 53 => v = 1
         /\ n = 54 => v = 0
         /\ n = 75 => v = 0
         /\ n = 76 => v = -1

\* a URL of 53 characters submitted without a scheme: 60 once prefixed
C6_Witness ==
  /\ CalledOnStr
  /\ Returned
  /\ ~ Contains(url.val, << ":", "/", "/" >>)
  /\ Len(url.val) = 53
  /\ extraction.features["URL_Length"] = 1

\* the ten shortener names of the specification
ShortenerNames ==
  { << "b", "i", "t", ".", "l", "y" >>,
    << "g", "o", "o", ".", "g", "l" >>,
    << "s", "h", "o", "r", "t", "e", ".", "s", "t" >>,
    << "g", "o", "2", "l", ".", "i", "n", "k" >>,
    << "x", ".", "c", "o" >>,
    << "o", "w", ".", "l", "y" >>,
    << "t", ".", "c", "o" >>,
    << "t", "i", "n", "y", "u", "r", "l" >>,
    << "t", "r", ".", "i", "m" >>,
    << "i", "s", ".", "g", "d" >> }

\* C7: Shortining_Service is -1 exactly when the string as submitted
\* contains one of the ten names, case-sensitively, and 1 otherwise;
\* http://x.co/abc" gives -1 and http://example.com/abc gives 1.
C7_ShorteningService ==
  (CalledOnStr /\ Returned) =>
     LET v == extraction.features["Shortining_Service"]
     IN  /\ v = IF \E name \in ShortenerNames : Contains(url.val, name) THEN -1 ELSE 1
         /\ url.val = << "h", "t", "t", "p", ":", "/", "/", "x", ".", "c", "o", "/", "a", "b", "c", "\"" >> => v = -1
         /\ url.val = << "h", "t", "t", "p", ":", "/", "/", "e", "x", "a", "m", "p", "l", "e", ".", "c", "o", "m", "/", "a", "b", "c" >> => v = 1

\* http://x.co/abc" was submitted and marked as a shortener
C7_Witness ==
  /\ CalledOnStr
  /\ Returned
  /\ url.val = << "h", "t", "t", "p", ":", "/", "/", "x", ".", "c", "o", "/", "a", "b", "c", "\"" >>
  /\ extraction.features["Shortining_Service"] = -1

\* C8: having_Sub_Domain follows the number of dot-separated labels of the
\* authority: 1 for at most 2, 0 for 3, -1 for more; https://sub.example.com
\* is accepted with having_Sub_Domain = 0 and SSLfinal_State = 1.
C8_SubDomainByLabelCount ==
  /\ (CalledOnStr /\ Returned) =>
        LET n == Len(Split(Authority, "."))
            v == extraction.features["having_Sub_Domain"]
        IN  /\ n <= 2 => v = 1
            /\ n = 3 => v = 0
            /\ n > 3 => v = -1
  /\ (CalledOnStr /\ url.val = << "h", "t", "t", "p", "s", ":", "/", "/", "s", "u", "b", ".", "e", "x", "a", "m", "p", "l", "e", ".", "c", "o", "m" >>) =>
        /\ Returned
        /\ extraction.features["having_Sub_Domain"] = 0
        /\ extraction.features["SSLfinal_State"] = 1

\* https://sub.example.com was submitted and its vector returned
C8_Witness ==
  /\ CalledOnStr
  /\ Returned
  /\ url.val = << "h", "t", "t", "p", "s", ":", "/", "/", "s", "u", "b", ".", "e", "x", "a", "m", "p", "l", "e", ".", "c", "o", "m" >>
  /\ extraction.features["having_Sub_Domain"] = 0
  /\ extraction.features["SSLfinal_State"] = 1

\* four dot-separated decimal numbers of one to three digits, none above 255
DottedQuad(d) ==
  LET parts == Split(d, ".")
  IN  /\ Len(parts) = 4
      /\ \A i \in 1..4 :
            /\ Len(parts[i]) \in 1..3
            /\ Chars(parts[i]) \subseteq Digits
            /\ NumVal(parts[i], 10) <= 255

\* C9: a URL whose authority is a dotted-quad IPv4 literal ends with the
\* invalid-domain error, and every vector returned has having_IP_Address = 1.
C9_NoIPAddressVector ==
  /\ (CalledOnStr /\ Parses /\ DottedQuad(Authority)) => InvalidDomainError
  /\ (CalledOnStr /\ Returned) => extraction.features["having_IP_Address"] = 1

\* http://192.168.0.1 was submitted and rejected
C9_Witness ==
  /\ url.type = "str"
  /\ url.val = << "h", "t", "t", "p", ":", "/", "/", "1", "9", "2", ".", "1", "6", "8", ".", "0", ".", "1" >>
  /\ DottedQuad(Authority)
  /\ InvalidDomainError
  /\ response.status = 400

\* every vector returned has port = 1, and having_At_Symbol = -1 only with
\* an "@" outside the authority
PortAndAtOfVectors ==
  (CalledOnStr /\ Returned) =>
     /\ extraction.features["port"] = 1
     /\ extraction.features["having_At_Symbol"] = -1 =>
           /\ "@" \notin Chars(Authority)
           /\ "@" \in Chars(url.val)

====
